---- MODULE Spec2Model ----
(***************************************************************************)
(* Model of scanner.py: the harvest -> classify -> filter -> save pipeline *)
(* of the AI-democracy signal scanner.                                     *)
(*                                                                         *)
(* Data abstraction.  A Python dict is a function from a set of keys      *)
(* (strings) to values.  A value is a string carrying its JSON type:      *)
(* "b:true"/"b:false" booleans, "s:..." strings, "n:..." numbers, "null"  *)
(* None.  A text (a reply of the classification service, or the content   *)
(* of signals.json) is a sequence of tokens [t, d]:                       *)
(*   "ws"   white space            "txt"  prose that is not JSON          *)
(*   "["    "]"  array brackets    "obj"  a complete JSON object, d       *)
(*   "num"  a JSON number          "str"  a JSON string                   *)
(*   "nul"  JSON null              "cut"  an object cut off mid-way       *)
(***************************************************************************)
EXTENDS Integers, Sequences, FiniteSets, TLC

VARIABLES file, pc, run, world, articles, calls, replies, classified,
          signals, preFile, prevSigs, writes, failedAt, cleanStart

vars == <<file, pc, run, world, articles, calls, replies, classified,
          signals, preFile, prevSigs, writes, failedAt, cleanStart>>

(***************************************************************************)
(* Bounds of the model.                                                    *)
(***************************************************************************)
\* number of pipeline runs explored
MaxRuns == 2
\* longest feed document (in entries) in the harvester-only specification
MaxFeedLen == 3

\* scanner.py line 80 sets 20; scaled down with the feed lengths above so
\* that the cap is reached (MaxFeedLen > ARTICLES_PER_FEED).
ARTICLES_PER_FEED == 2

\* RSS_FEEDS: the configured feeds in dict iteration order (35 in the
\* source, two here).
RSS_FEEDS == <<"f1", "f2">>

(***************************************************************************)
(* Dicts.                                                                  *)
(***************************************************************************)
EmptyDict == [k \in {} |-> "null"]

\* {**a, **b}: the keys of both, b's value where both have the key
Merge(a, b) ==
  [k \in (DOMAIN a) \cup (DOMAIN b) |-> IF k \in DOMAIN b THEN b[k] ELSE a[k]]

\* d.get(k, default)
Get(d, k, default) == IF k \in DOMAIN d THEN d[k] ELSE default

\* a dict without key k (used to compare Signals up to their time stamp)
Without(d, k) == [x \in (DOMAIN d) \ {k} |-> d[x]]

IsStr(v) == v \notin {"null", "b:true", "b:false", "n:0", "n:1"}

\* str.strip() on the strings of the model
StrStrip(v) == IF v = "s: T " THEN "s:T" ELSE v

\* s[:800] on the strings of the model ("s:S+" is longer than 800)
StrCut800(v) == IF v = "s:S+" THEN "s:S" ELSE v

(***************************************************************************)
(* Texts and the JSON reader.                                              *)
(***************************************************************************)
Tok(t) == [t |-> t, d |-> EmptyDict]
Obj(d) == [t |-> "obj", d |-> Merge(EmptyDict, d)]

ValueToks == {"obj", "num", "str", "nul"}

RECURSIVE DropWs(_)
DropWs(s) ==
  IF s = <<>> THEN <<>>
  ELSE IF Head(s).t = "ws" THEN DropWs(Tail(s)) ELSE s

RECURSIVE DropWsEnd(_)
DropWsEnd(s) ==
  IF s = <<>> THEN <<>>
  ELSE IF s[Len(s)].t = "ws" THEN DropWsEnd(SubSeq(s, 1, Len(s) - 1)) ELSE s

\* str.strip() on a text
strip(s) == DropWsEnd(DropWs(s))

\* json.loads: [ty |-> "err"] is JSONDecodeError; otherwise the value read:
\* "dict" with d, "list" with its items (each [ty, d]), or a scalar type.
JsonErr == [ty |-> "err", d |-> EmptyDict, items |-> <<>>]

json_loads(text) ==
  LET s == strip(text)
      n == Len(s)
  IN  IF n = 1 /\ s[1].t \in ValueToks
        THEN [ty |-> IF s[1].t = "obj" THEN "dict" ELSE s[1].t,
              d |-> s[1].d, items |-> <<>>]
      ELSE IF n >= 2 /\ s[1].t = "[" /\ s[n].t = "]"
              /\ \A i \in 2..(n - 1) : s[i].t \in ValueToks
        THEN [ty |-> "list", d |-> EmptyDict,
              items |-> [i \in 1..(n - 2) |->
                           [ty |-> IF s[i + 1].t = "obj" THEN "dict"
                                   ELSE s[i + 1].t,
                            d |-> s[i + 1].d]]]
      ELSE JsonErr

\* A str that utf-8 cannot encode (a lone surrogate, which json.loads
\* accepts as the escape \ud800) makes f.write raise UnicodeEncodeError.
Encodable(d) == \A k \in DOMAIN d : d[k] # "s:\\ud800"

(***************************************************************************)
(* fetch_articles                                                          *)
(***************************************************************************)
\* Feed entries as feedparser hands them over.
EntryA == [title |-> "s:T", summary |-> "s:S", link |-> "s:u1",
           published |-> "s:P"]
EntryB == [title |-> "s: T ", summary |-> "s:S+", link |-> "s:u2"]
\* a title that is not a str: .strip() raises AttributeError
EntryBad == [title |-> "null", link |-> "s:u1"]
EntryBare == EmptyDict

\* the dict literal of lines 169-175; "raise" when a method call fails
Raises(entry) ==
  \/ ~IsStr(Get(entry, "title", "s:"))
  \/ ~IsStr(Get(entry, "summary", "s:"))

ToArticle(source, entry) ==
  [source    |-> source,
   title     |-> StrStrip(Get(entry, "title", "s:")),
   summary   |-> StrStrip(StrCut800(Get(entry, "summary", "s:"))),
   url       |-> Get(entry, "link", "s:"),
   published |-> Get(entry, "published", "s:")]

\* A feed document: feedparser.parse raises, or returns entries.
Doc(raises, entries) == [raises |-> raises, entries |-> entries]

\* the inner loop of lines 168-175 over feed.entries[:ARTICLES_PER_FEED]:
\* appends until an entry raises; what was appended stays in articles
RECURSIVE ConvertEntries(_, _, _)
ConvertEntries(source, entries, acc) ==
  IF entries = <<>> THEN acc
  ELSE IF Raises(Head(entries)) THEN acc
  ELSE ConvertEntries(source, Tail(entries),
                      Append(acc, ToArticle(source, Head(entries))))

FirstN(s, n) == SubSeq(s, 1, IF Len(s) < n THEN Len(s) ELSE n)

\* one iteration of the loop over RSS_FEEDS (lines 165-178)
HarvestFeed(source, doc, acc) ==
  IF doc.raises THEN acc
  ELSE ConvertEntries(source, FirstN(doc.entries, ARTICLES_PER_FEED), acc)

RECURSIVE HarvestFrom(_, _, _)
HarvestFrom(i, w, acc) ==
  IF i > Len(RSS_FEEDS) THEN acc
  ELSE HarvestFrom(i + 1, w, HarvestFeed(RSS_FEEDS[i], w[RSS_FEEDS[i]], acc))

fetch_articles(w) == HarvestFrom(1, w, <<>>)

(***************************************************************************)
(* classify                                                                *)
(***************************************************************************)
\* datetime.utcnow().isoformat() during run n: "t", "t'", "t''", ...
RECURSIVE Stamp(_)
Stamp(n) == IF n <= 0 THEN "t" ELSE Stamp(n - 1) \o "'"

\* Reply objects of the classification service.
RTrue == [relevant |-> "b:true", primary_category |-> "s:WEAKENS",
          confidence |-> "n:1"]
RFalse == [relevant |-> "b:false", primary_category |-> "s:AMBIGUOUS"]
RTruthy == [relevant |-> "s:true", primary_category |-> "s:WEAKENS"]
ROne == [relevant |-> "n:1"]
RNoRelevant == [primary_category |-> "s:WEAKENS"]
RUrl == [relevant |-> "b:true", url |-> "s:u2", title |-> "s:X"]
RSurrogate == [relevant |-> "b:true", rationale |-> "s:\\ud800"]

\* client.messages.create raises, or response.content[0].text is text
Reply(raises, text) == [raises |-> raises, text |-> text]

TransportError == Reply(TRUE, <<>>)

\* lines 199 and 202: the failure Signals
FailureSignal(article, error, ts) ==
  Merge(article, [relevant |-> "b:false", error |-> error, scanned_at |-> ts])

\* lines 188-202.  {**article, **result} raises TypeError when result is
\* not a mapping; the handler of line 200 catches it like a service failure.
classify(article, reply, ts) ==
  IF reply.raises THEN FailureSignal(article, "s:APIError", ts)
  ELSE LET raw == strip(reply.text)
           result == json_loads(raw)
       IN  IF result.ty = "err"
             THEN FailureSignal(article, "s:json_parse_error", ts)
           ELSE IF result.ty # "dict"
             THEN FailureSignal(article, "s:not a mapping", ts)
           ELSE Merge(Merge(article, result.d), [scanned_at |-> ts])

(***************************************************************************)
(* The relevance filter of main (line 238)                                 *)
(***************************************************************************)
\* mutant of IsRelevant: truthiness instead of identity with True
IsTruthy(c) ==
  Get(c, "relevant", "null") \notin {"null", "b:false", "n:0", "s:"}

\* c.get("relevant") is True
IsRelevant(c) == Get(c, "relevant", "null") = "b:true"

RECURSIVE Relevant(_)
Relevant(cs) ==
  IF cs = <<>> THEN <<>>
  ELSE IF IsRelevant(Head(cs)) THEN <<Head(cs)>> \o Relevant(Tail(cs))
  ELSE Relevant(Tail(cs))

(***************************************************************************)
(* save                                                                    *)
(***************************************************************************)
\* signals.json: absent, or a text
Absent == [exists |-> FALSE, text |-> <<>>]
Document(text) == [exists |-> TRUE, text |-> text]

EmptyList == [ty |-> "list", d |-> EmptyDict, items |-> <<>>]

\* lines 206-210: FileNotFoundError and JSONDecodeError give []
LoadExisting(f) ==
  IF ~f.exists THEN EmptyList
  ELSE LET v == json_loads(f.text)
       IN  IF v.ty = "err" THEN EmptyList ELSE v

\* lines 212-214 raise (TypeError, KeyError) unless existing is a list of
\* dicts that all have "url"
MergeRaises(existing) ==
  \/ existing.ty # "list"
  \/ \E i \in 1..Len(existing.items) :
        \/ existing.items[i].ty # "dict"
        \/ "url" \notin DOMAIN existing.items[i].d

ExistingSignals(existing) ==
  [i \in 1..Len(existing.items) |-> existing.items[i].d]

\* mutant of ExistingUrls: the urls of the store are not collected
ForgetExistingUrls(sigs) == {}

\* line 212
ExistingUrls(sigs) == {sigs[i]["url"] : i \in 1..Len(sigs)}

\* line 213
RECURSIVE NewSignals(_, _)
NewSignals(sigs, urls) ==
  IF sigs = <<>> THEN <<>>
  ELSE IF Head(sigs)["url"] \notin urls
    THEN <<Head(sigs)>> \o NewSignals(Tail(sigs), urls)
  ELSE NewSignals(Tail(sigs), urls)

\* mutant of Combined: an incoming Signal replaces the stored Signal of the
\* same url (last seen wins)
RECURSIVE DropUrls(_, _)
DropUrls(sigs, urls) ==
  IF sigs = <<>> THEN <<>>
  ELSE IF Head(sigs)["url"] \in urls THEN DropUrls(Tail(sigs), urls)
  ELSE <<Head(sigs)>> \o DropUrls(Tail(sigs), urls)

UpsertCombined(existing, sigs) ==
  DropUrls(existing, {sigs[i]["url"] : i \in 1..Len(sigs)}) \o sigs

\* line 214
Combined(existing, sigs) ==
  existing \o NewSignals(sigs, ExistingUrls(existing))

\* index of the first Signal json.dump cannot write, 0 if none
FirstUnwritable(combined) ==
  IF \A i \in 1..Len(combined) : Encodable(combined[i]) THEN 0
  ELSE CHOOSE i \in 1..Len(combined) :
         /\ ~Encodable(combined[i])
         /\ \A j \in 1..(i - 1) : Encodable(combined[j])

\* lines 216-217: open(.., "w") empties the file, json.dump writes the
\* array piece by piece; a piece that cannot be encoded raises and the
\* with-block closes the file on what was written so far.
json_dump(combined) ==
  LET k == FirstUnwritable(combined)
  IN  IF k = 0
        THEN <<Tok("[")>> \o [i \in 1..Len(combined) |-> Obj(combined[i])]
               \o <<Tok("]")>>
      ELSE <<Tok("[")>> \o [i \in 1..(k - 1) |-> Obj(combined[i])]
               \o <<Tok("cut")>>

\* save(signals) on file f: the file afterwards, whether save raised, and
\* whether it had opened the file for writing
save(f, sigs) ==
  LET existing == LoadExisting(f)
  IN  IF MergeRaises(existing)
        THEN [file |-> f, raised |-> TRUE, wrote |-> FALSE]
      ELSE LET combined == Combined(ExistingSignals(existing), sigs)
           IN  [file   |-> Document(json_dump(combined)),
                raised |-> FirstUnwritable(combined) # 0,
                wrote  |-> TRUE]

(***************************************************************************)
(* Inputs: what the feeds, the classification service and the disk can     *)
(* hold.                                                                   *)
(***************************************************************************)
SeqsUpTo(S, n) == UNION {[1..k -> S] : k \in 0..n}

FeedNames == {RSS_FEEDS[i] : i \in 1..Len(RSS_FEEDS)}

Docs(S, n) == {Doc(TRUE, <<>>)} \cup {Doc(FALSE, e) : e \in SeqsUpTo(S, n)}

\* the feeds as a pipeline run finds them: each feed fails, is empty, or
\* holds one entry
Worlds ==
  [FeedNames -> {Doc(TRUE, <<>>), Doc(FALSE, <<>>), Doc(FALSE, <<EntryA>>),
                 Doc(FALSE, <<EntryB>>), Doc(FALSE, <<EntryBad>>)}]

\* the feeds of the harvester-only specification
FetchWorlds ==
  [FeedNames -> Docs({EntryA, EntryB, EntryBad, EntryBare}, MaxFeedLen)]

NoFeeds == [f \in FeedNames |-> Doc(FALSE, <<>>)]

\* replies of the service during a pipeline run
PipelineReplies ==
  {TransportError,
   Reply(FALSE, <<Tok("txt")>>),
   Reply(FALSE, <<Obj(RTrue)>>),
   Reply(FALSE, <<Obj(RFalse)>>),
   Reply(FALSE, <<Obj(RTruthy)>>),
   Reply(FALSE, <<Obj(RUrl)>>),
   Reply(FALSE, <<Obj(RSurrogate)>>)}

\* replies of the classifier-only specification: every object and every
\* other JSON value, bare, padded with white space, or wrapped in prose
ReplyObjects ==
  {Obj(RTrue), Obj(RFalse), Obj(RTruthy), Obj(ROne), Obj(RNoRelevant),
   Obj(RUrl), Obj(RSurrogate), Obj(EmptyDict)}

ClassifyReplies ==
  {TransportError, Reply(FALSE, <<>>), Reply(FALSE, <<Tok("txt")>>),
   Reply(FALSE, <<Tok("[")>>), Reply(FALSE, <<Tok("["), Tok("]")>>),
   Reply(FALSE, <<Tok("["), Obj(RTrue), Tok("]")>>),
   Reply(FALSE, <<Tok("num")>>), Reply(FALSE, <<Tok("str")>>),
   Reply(FALSE, <<Tok("nul")>>)}
  \cup {Reply(FALSE, <<o>>) : o \in ReplyObjects}
  \cup {Reply(FALSE, <<Tok("ws"), o, Tok("ws")>>) : o \in ReplyObjects}
  \cup {Reply(FALSE, <<Tok("txt"), o>>) : o \in ReplyObjects}
  \cup {Reply(FALSE, <<o, Tok("txt")>>) : o \in ReplyObjects}

ClassifyArticles ==
  {ToArticle(f, e) : f \in FeedNames, e \in {EntryA, EntryB, EntryBare}}

\* signals.json before the first run: absent, an empty array, text that is
\* not JSON, JSON that is not an array, an array holding a number, an
\* array holding an object without "url"
InitialFiles ==
  {Absent,
   Document(<<Tok("["), Tok("]")>>),
   Document(<<Tok("txt")>>),
   Document(<<Obj(EmptyDict)>>),
   Document(<<Tok("["), Tok("num"), Tok("]")>>),
   Document(<<Tok("["), Obj(EmptyDict), Tok("]")>>)}

\* a Signal list up to the time stamps
RECURSIVE NoStamps(_)
NoStamps(sigs) ==
  IF sigs = <<>> THEN <<>>
  ELSE <<Without(Head(sigs), "scanned_at")>> \o NoStamps(Tail(sigs))

(***************************************************************************)
(* The pipeline: main, one run after the other.                            *)
(***************************************************************************)
Init ==
  /\ file \in InitialFiles
  /\ cleanStart = (file \in {Absent, Document(<<Tok("["), Tok("]")>>)})
  /\ pc = "idle"
  /\ run = 0
  /\ world = NoFeeds
  /\ articles = <<>>
  /\ calls = <<>>
  /\ replies = <<>>
  /\ classified = <<>>
  /\ signals = <<>>
  /\ preFile = file
  /\ prevSigs = <<>>
  /\ writes = 0
  /\ failedAt = "none"

\* lines 223-226: a run starts; without the credential it ends at once
Start ==
  /\ pc \in {"idle", "done", "failed"}
  /\ run < MaxRuns
  /\ run' = run + 1
  /\ preFile' = file
  /\ prevSigs' = NoStamps(signals)
  /\ world' = NoFeeds
  /\ articles' = <<>>
  /\ calls' = <<>>
  /\ replies' = <<>>
  /\ classified' = <<>>
  /\ signals' = <<>>
  /\ writes' = 0
  /\ \E key \in BOOLEAN :
        IF key THEN pc' = "fetch" /\ failedAt' = "none"
        ELSE pc' = "failed" /\ failedAt' = "start"
  /\ UNCHANGED <<file, cleanStart>>

\* line 229
Fetch ==
  /\ pc = "fetch"
  /\ \E w \in Worlds :
        /\ world' = w
        /\ articles' = fetch_articles(w)
  /\ pc' = "classify"
  /\ UNCHANGED <<file, run, calls, replies, classified, signals, preFile,
                 prevSigs, writes, failedAt, cleanStart>>

\* mutant of ClassifyStep: a failed service call is not caught and ends the
\* run
ClassifyStepUncaught ==
  /\ pc = "classify"
  /\ Len(classified) < Len(articles)
  /\ LET article == articles[Len(classified) + 1]
     IN  \E reply \in PipelineReplies :
           /\ calls' = Append(calls, article)
           /\ replies' = Append(replies, reply)
           /\ IF reply.raises
                THEN /\ pc' = "failed"
                     /\ failedAt' = "classify"
                     /\ UNCHANGED classified
              ELSE /\ classified' = Append(classified,
                                          classify(article, reply, Stamp(run)))
                   /\ UNCHANGED <<pc, failedAt>>
  /\ UNCHANGED <<file, run, world, articles, signals, preFile, prevSigs,
                 writes, cleanStart>>

\* lines 234-236: one iteration of the classification loop
ClassifyStep ==
  /\ pc = "classify"
  /\ Len(classified) < Len(articles)
  /\ LET article == articles[Len(classified) + 1]
     IN  \E reply \in PipelineReplies :
           /\ calls' = Append(calls, article)
           /\ replies' = Append(replies, reply)
           /\ classified' = Append(classified,
                                   classify(article, reply, Stamp(run)))
  /\ UNCHANGED <<file, pc, run, world, articles, signals, preFile, prevSigs,
                 writes, failedAt, cleanStart>>

\* line 238
Filter ==
  /\ pc = "classify"
  /\ Len(classified) = Len(articles)
  /\ signals' = Relevant(classified)
  /\ pc' = "save"
  /\ UNCHANGED <<file, run, world, articles, calls, replies, classified,
                 preFile, prevSigs, writes, failedAt, cleanStart>>

\* line 241
Save ==
  /\ pc = "save"
  /\ LET r == save(file, signals)
     IN  /\ file' = r.file
         /\ writes' = IF r.wrote THEN writes + 1 ELSE writes
         /\ IF r.raised THEN pc' = "failed" /\ failedAt' = "save"
            ELSE pc' = "done" /\ failedAt' = "none"
  /\ UNCHANGED <<run, world, articles, calls, replies, classified, signals,
                 preFile, prevSigs, cleanStart>>

Next == Start \/ Fetch \/ ClassifyStep \/ Filter \/ Save

Spec == Init /\ [][Next]_vars

(***************************************************************************)
(* fetch_articles alone, on every feed content up to MaxFeedLen.           *)
(***************************************************************************)
InitFetch ==
  /\ file = Absent
  /\ cleanStart = TRUE
  /\ pc = "fetch"
  /\ run = 1
  /\ world = NoFeeds
  /\ articles = <<>>
  /\ calls = <<>>
  /\ replies = <<>>
  /\ classified = <<>>
  /\ signals = <<>>
  /\ preFile = file
  /\ prevSigs = <<>>
  /\ writes = 0
  /\ failedAt = "none"

FetchOnly ==
  /\ pc = "fetch"
  /\ pc' = "classify"
  /\ \E w \in FetchWorlds :
        /\ world' = w
        /\ articles' = fetch_articles(w)
  /\ UNCHANGED <<file, run, calls, replies, classified, signals, preFile,
                 prevSigs, writes, failedAt, cleanStart>>

NextFetch == FetchOnly

SpecFetch == InitFetch /\ [][NextFetch]_vars

(***************************************************************************)
(* classify alone, on every article and every reply.                       *)
(***************************************************************************)
InitClassify ==
  /\ file = Absent
  /\ cleanStart = TRUE
  /\ pc = "classify"
  /\ run = 0
  /\ world = NoFeeds
  /\ articles = <<>>
  /\ calls = <<>>
  /\ replies = <<>>
  /\ classified = <<>>
  /\ signals = <<>>
  /\ preFile = file
  /\ prevSigs = <<>>
  /\ writes = 0
  /\ failedAt = "none"

ClassifyOnly ==
  /\ pc = "classify"
  /\ pc' = "filter"
  /\ \E article \in ClassifyArticles, reply \in ClassifyReplies,
        n \in 1..MaxRuns :
        /\ run' = n
        /\ articles' = <<article>>
        /\ calls' = <<article>>
        /\ replies' = <<reply>>
        /\ classified' = <<classify(article, reply, Stamp(n))>>
  /\ UNCHANGED <<file, world, signals, preFile, prevSigs, writes,
                 failedAt, cleanStart>>

NextClassify == ClassifyOnly

SpecClassify == InitClassify /\ [][NextClassify]_vars

(***************************************************************************)
(* Reading the state for the properties below.                             *)
(***************************************************************************)
\* the text is a complete JSON array of objects that all carry "url"
IsSignalArray(f) ==
  /\ f.exists
  /\ Len(f.text) >= 2
  /\ f.text[1].t = "["
  /\ f.text[Len(f.text)].t = "]"
  /\ \A i \in 2..(Len(f.text) - 1) :
        f.text[i].t = "obj" /\ "url" \in DOMAIN f.text[i].d

\* the Signals a document holds, in order; none unless it is such an array
Collection(f) ==
  IF IsSignalArray(f) THEN [i \in 1..(Len(f.text) - 2) |-> f.text[i + 1].d]
  ELSE <<>>

Urls(sigs) == {sigs[i]["url"] : i \in 1..Len(sigs)}

\* every object written in the document, complete or not
ObjectsOf(f) == SelectSeq(f.text, LAMBDA t : t.t = "obj")

\* what a run is to leave on disk: the prior collection, then the incoming
\* Signals whose url the prior collection does not hold
Merged(old, incoming) ==
  old \o SelectSeq(incoming, LAMBDA s : s["url"] \notin Urls(old))

AfterSave == pc = "done" \/ (pc = "failed" /\ failedAt = "save")

\* the reply is one JSON object and nothing else
IsOneObject(reply) ==
  /\ ~reply.raises
  /\ LET body == SelectSeq(reply.text, LAMBDA t : t.t # "ws")
     IN  Len(body) = 1 /\ body[1].t = "obj"

\* the keys of the object the reply is, none if it is no object
ReplyKeys(reply) ==
  IF IsOneObject(reply)
    THEN DOMAIN (SelectSeq(reply.text, LAMBDA t : t.t # "ws")[1].d)
  ELSE {}

ArticleKeys == {"source", "title", "summary", "url", "published"}

(***************************************************************************)
(* Properties.                                                             *)
(***************************************************************************)
\* C1: started from an absent or empty store, the persisted document never
\* holds two Signals with the same url, whatever list each run saves (a
\* list with the same url twice included).
C1_DistinctUrls ==
  cleanStart =>
    LET objs == ObjectsOf(file)
    IN  \A i, j \in 1..Len(objs) :
          i # j => objs[i].d["url"] # objs[j].d["url"]

\* C2: when save returns, the document holds the prior collection as an
\* exact prefix (same Signals, same order), followed by the incoming
\* Signals whose url the prior collection lacks, in incoming order.
C2_MergeKeepsExisting ==
  pc = "done" =>
    /\ IsSignalArray(file)
    /\ Collection(file) = Merged(Collection(preFile), signals)
    /\ SubSeq(Collection(file), 1, Len(Collection(preFile)))
         = Collection(preFile)

\* a run saved onto a non-empty store one Signal whose url the store holds
\* with other content, and one Signal that is new
C2_Witness ==
  /\ pc = "done"
  /\ Collection(preFile) # <<>>
  /\ \E i, j \in 1..Len(signals) :
        /\ signals[i]["url"] \in Urls(Collection(preFile))
        /\ \A k \in 1..Len(Collection(preFile)) :
              Collection(preFile)[k] # signals[i]
        /\ signals[j]["url"] \notin Urls(Collection(preFile))

\* C3: a completed run whose relevant Signals are those of the run before
\* (up to the time stamps) leaves the stored collection as it was; and a
\* completed run whose relevant Signals all have urls already stored leaves
\* the size of the store unchanged.
C3_Idempotent ==
  pc = "done" =>
    /\ (run >= 2 /\ NoStamps(signals) = prevSigs)
         => Collection(file) = Collection(preFile)
    /\ (\A i \in 1..Len(signals) :
           signals[i]["url"] \in Urls(Collection(preFile)))
         => Len(Collection(file)) = Len(Collection(preFile))

\* a second run completed with the relevant Signals of the first, two of
\* them, on a store that holds them
C3_Witness ==
  /\ pc = "done"
  /\ run >= 2
  /\ Len(signals) = 2
  /\ NoStamps(signals) = prevSigs
  /\ Collection(preFile) # <<>>

\* C4: the filter keeps exactly the classified Signals whose relevant field
\* is present and is the boolean true, in their order; every Signal a run
\* adds to the store has relevant = true, and no Signal of a failed
\* classification (service failure, unreadable reply) is added.
C4_OnlyRelevantStored ==
  /\ pc \in {"save", "done", "failed"} =>
       signals = SelectSeq(classified,
                   LAMBDA c : "relevant" \in DOMAIN c /\ c["relevant"] = "b:true")
  /\ pc = "done" =>
       LET old == Len(Collection(preFile))
           new == Collection(file)
       IN  \A k \in (old + 1)..Len(new) :
             /\ new[k]["relevant"] = "b:true"
             /\ \A i \in 1..Len(classified) :
                   ~IsOneObject(replies[i]) => classified[i] # new[k]

\* a run classified one item as relevant: "true" (a string), one as
\* relevant: true, and stored a Signal
C4_Witness ==
  /\ pc = "done"
  /\ Len(Collection(file)) > Len(Collection(preFile))
  /\ \E i, j \in 1..Len(classified) :
        /\ Get(classified[i], "relevant", "null") = "s:true"
        /\ Get(classified[j], "relevant", "null") = "b:true"

\* C9: every harvested item is passed to the classifier once, in harvest
\* order, and gives one Signal; a failure on one item does not stop the
\* loop: the run never ends inside the classification loop, the loop can
\* always take its next step, and it is left only towards save, with a
\* classified list of the length and order of the harvest.
C9_EveryItemClassifiedOnce ==
  /\ pc \in {"classify", "save", "done", "failed"} =>
       /\ Len(calls) = Len(classified)
       /\ calls = SubSeq(articles, 1, Len(calls))
       /\ \A i \in 1..Len(classified) :
             /\ "scanned_at" \in DOMAIN classified[i]
             /\ \A k \in ArticleKeys \ ReplyKeys(replies[i]) :
                   classified[i][k] = articles[i][k]
  /\ (AfterSave \/ pc = "save") => calls = articles
  /\ pc = "failed" => failedAt \in {"start", "save"}
  /\ pc = "classify" => ENABLED (ClassifyStep \/ Filter)

\* the first of two items failed in the service call, the second was
\* classified as relevant, and the run went on to save
C9_Witness ==
  /\ pc = "save"
  /\ Len(articles) = 2
  /\ replies[1].raises
  /\ classified[1]["error"] = "s:APIError"
  /\ classified[2]["relevant"] = "b:true"

\* C5: every reply that is not one JSON object (text that is not JSON,
\* JSON wrapped in other text, or JSON that is an array, a number, a string
\* or null) gives the failure Signal: the article's fields, relevant =
\* false, error = "json_parse_error", a time stamp, and nothing else.
C5_NonObjectIsParseError ==
  \A i \in 1..Len(classified) :
    (~replies[i].raises /\ ~IsOneObject(replies[i])) =>
      classified[i] = Merge(articles[i],
                            [relevant   |-> "b:false",
                             error      |-> "s:json_parse_error",
                             scanned_at |-> Stamp(run)])

\* C6: a feed that fails, in feedparser.parse or at any of the entries the
\* harvester converts, contributes no item; every other feed contributes
\* its first ARTICLES_PER_FEED entries, in feed order, the feeds in
\* RSS_FEEDS order.
FeedFails(doc) ==
  \/ doc.raises
  \/ \E i \in 1..Len(doc.entries) :
        i <= ARTICLES_PER_FEED /\ Raises(doc.entries[i])

RECURSIVE Expected(_)
Expected(i) ==
  IF i > Len(RSS_FEEDS) THEN <<>>
  ELSE LET f == RSS_FEEDS[i]
           kept == FirstN(world[f].entries, ARTICLES_PER_FEED)
       IN  (IF FeedFails(world[f]) THEN <<>>
            ELSE [k \in 1..Len(kept) |-> ToArticle(f, kept[k])])
           \o Expected(i + 1)

C6_FailedFeedContributesNothing ==
  pc # "fetch" => articles = Expected(1)

\* C7: a run writes the document at most once, and at every moment the
\* document is either what it was before the run or the complete merged
\* collection, never an empty, cut or partial document.
C7_AtomicWrite ==
  /\ writes <= 1
  /\ \/ file = preFile
     \/ /\ IsSignalArray(file) \/ file.text = <<Tok("["), Tok("]")>>
        /\ Collection(file) = Merged(Collection(preFile), signals)

\* C8: when the prior document is absent, is not JSON, or is JSON that is
\* no array of objects carrying url, save takes the store as empty,
\* returns, and the document then holds the incoming Signals.  (Stated for
\* runs whose Signals can all be written, so that only the load decides.)
C8_LoadNeverFails ==
  (/\ AfterSave
   /\ ~IsSignalArray(preFile)
   /\ preFile.text # <<Tok("["), Tok("]")>>
   /\ \A i \in 1..Len(signals) : Encodable(signals[i])) =>
      /\ pc = "done"
      /\ Collection(file) = signals

\* C10: when the reply is a JSON object, whatever its keys, the Signal has
\* the article's own source, title, summary, url and published.
C10_ArticleFieldsKept ==
  \A i \in 1..Len(classified) :
    IsOneObject(replies[i]) =>
      \A k \in ArticleKeys : classified[i][k] = articles[i][k]

====
